---- MODULE Spec2Model ----
(***************************************************************************)
(* Product inventory management: the product use case (validation, CSV     *)
(* import reconciliation, update with audit logging) over the SQLite       *)
(* tables products and inventory_logs.  Requests run concurrently; every   *)
(* awaited database statement is one atomic step of its request.           *)
(***************************************************************************)
EXTENDS Integers, Sequences, FiniteSets, TLC

(***************************************************************************)
(* JavaScript / SQLite values.  A string is a sequence of one-character    *)
(* strings; null and undefined are one-token sequences that are no string. *)
(* A stock value is a tagged value: a number, a string, null or undefined. *)
(***************************************************************************)
NULL == <<"null">>
UNDEF == <<"undefined">>

Str(s) == [k |-> "str", n |-> 0, s |-> s]
Num(n) == [k |-> "num", n |-> n, s |-> <<>>]
NullV == [k |-> "null", n |-> 0, s |-> <<>>]
UndefV == [k |-> "undef", n |-> 0, s |-> <<>>]
NaN == [k |-> "nan", n |-> 0, s |-> <<>>]

UpperCase == <<"A", "B", "C", "D", "E", "F", "G", "H", "I", "J", "K", "L", "M", "N", "O", "P", "Q", "R", "S", "T", "U", "V", "W", "X", "Y", "Z">>
LowerCase == <<"a", "b", "c", "d", "e", "f", "g", "h", "i", "j", "k", "l", "m", "n", "o", "p", "q", "r", "s", "t", "u", "v", "w", "x", "y", "z">>
Digits == <<"0", "1", "2", "3", "4", "5", "6", "7", "8", "9">>

IndexIn(c, table) == IF \E i \in DOMAIN table : table[i] = c
                     THEN CHOOSE i \in DOMAIN table : table[i] = c
                     ELSE 0

\* SQLite's NOCASE collation folds the 26 ASCII upper-case letters only.
FoldChar(c) == IF IndexIn(c, UpperCase) # 0 THEN LowerCase[IndexIn(c, UpperCase)] ELSE c
Fold(s) == [i \in DOMAIN s |-> FoldChar(s[i])]
NocaseEq(a, b) == Fold(a) = Fold(b)

RECURSIVE TrimLeft(_)
TrimLeft(s) == IF s # <<>> /\ Head(s) = " " THEN TrimLeft(Tail(s)) ELSE s
RECURSIVE TrimRight(_)
TrimRight(s) == IF s # <<>> /\ s[Len(s)] = " " THEN TrimRight(SubSeq(s, 1, Len(s) - 1)) ELSE s
\* String.prototype.trim
Trim(s) == TrimRight(TrimLeft(s))

RECURSIVE DigitsValue(_)
DigitsValue(s) == IF s = <<>> THEN 0
                  ELSE 10 * DigitsValue(SubSeq(s, 1, Len(s) - 1)) + (IndexIn(s[Len(s)], Digits) - 1)
AllDigits(s) == s # <<>> /\ \A i \in DOMAIN s : IndexIn(s[i], Digits) # 0
\* a decimal integer literal: optional sign, then digits
IsDecimal(s) == \/ AllDigits(s)
                \/ s # <<>> /\ Head(s) \in {"-", "+"} /\ AllDigits(Tail(s))
DecimalValue(s) == IF Head(s) = "-" THEN 0 - DigitsValue(Tail(s))
                   ELSE IF Head(s) = "+" THEN DigitsValue(Tail(s))
                   ELSE DigitsValue(s)

\* Number(v): null and the blank string read as 0, undefined and a string
\* that is no numeric literal read as NaN.
ToNumber(v) == CASE v.k = "num" -> v
                 [] v.k = "null" -> Num(0)
                 [] v.k = "str" -> IF Trim(v.s) = <<>> THEN Num(0)
                                   ELSE IF IsDecimal(Trim(v.s)) THEN Num(DecimalValue(Trim(v.s)))
                                   ELSE NaN
                 [] OTHER -> NaN

\* JavaScript truthiness of a stock value (the operand of `stock || 0`)
Truthy(v) == CASE v.k = "num" -> v.n # 0
               [] v.k = "str" -> v.s # <<>>
               [] OTHER -> FALSE

\* INTEGER column affinity: a well-formed numeric text is stored as the
\* integer, any other text stays text; undefined is bound as NULL.
IntegerAffinity(v) == CASE v.k = "num" -> v
                        [] v.k = "str" -> IF IsDecimal(Trim(v.s)) THEN Num(DecimalValue(Trim(v.s))) ELSE v
                        [] OTHER -> NullV

(***************************************************************************)
(* Results and errors.  An AppError carries its message (a format and the  *)
(* interpolated name) and status code; a failure raised by the database    *)
(* driver is no AppError.                                                  *)
(***************************************************************************)
NoRes == [type |-> "none", status |-> 0, fmt |-> "", arg |-> <<>>]
AppError(fmt, arg, status) == [type |-> "error", status |-> status, fmt |-> fmt, arg |-> arg]
StoreError == [type |-> "dberror", status |-> 0, fmt |-> "SQLITE_CONSTRAINT", arg |-> <<>>]
OkRes == [type |-> "ok", status |-> 0, fmt |-> "", arg |-> <<>>]
StatsRes == [type |-> "stats", status |-> 0, fmt |-> "", arg |-> <<>>]

RequiredFields == <<"name", "unit", "category", "brand", "status">>

\* a presence test that does not trim
FieldMissingUntrimmed(v) == v = UNDEF \/ v = NULL \/ v = <<>>

\* data[field] === undefined || data[field] === null || String(data[field]).trim() === ''
FieldMissing(v) == v = UNDEF \/ v = NULL \/ Trim(v) = <<>>

MissingFields(data) == {i \in DOMAIN RequiredFields : FieldMissing(data[RequiredFields[i]])}

StockInvalid(data) == ToNumber(data.stock).k = "nan" \/ ToNumber(data.stock).n < 0

\* _validateProductData: the AppError it throws, or NoRes when it returns
ValidateProductData(data) ==
    IF MissingFields(data) # {}
    THEN AppError("Product field '%s' is required.",
                  RequiredFields[CHOOSE i \in MissingFields(data) : \A j \in MissingFields(data) : i <= j],
                  400)
    ELSE IF StockInvalid(data)
    THEN AppError("Stock must be a non-negative number.", <<>>, 400)
    ELSE NoRes

(***************************************************************************)
(* The store: tables products and inventory_logs.  Rows are never deleted  *)
(* and a rejected INSERT consumes no id, so each table is a sequence and a *)
(* row's id is its index.  clock is the value of CURRENT_TIMESTAMP, which  *)
(* has a resolution of one second: Spec studies requests that fall within  *)
(* one second, so the clock stands still.  calls numbers the requests.     *)
(***************************************************************************)
VARIABLES products, logs, clock, req, calls

vars == <<products, logs, clock, req, calls>>

NoRow == [id |-> 0, name |-> NULL, unit |-> NULL, category |-> NULL, brand |-> NULL,
          stock |-> NullV, status |-> NULL, image |-> NULL, createdAt |-> 0, updatedAt |-> 0]

\* a lookup with no WHERE clause: the first row, whatever the id
FindByIdFirst(id) == IF products # <<>> THEN products[1] ELSE NoRow

\* SELECT * FROM products WHERE id = ?
FindById(id) == IF id \in DOMAIN products THEN products[id] ELSE NoRow

\* a lookup that compares names without COLLATE NOCASE
NameMatchesExactly(row, name) == row.name = name

\* SELECT * FROM products WHERE name = ? COLLATE NOCASE
NameMatches(row, name) == NocaseEq(row.name, name)
FindByName(name) ==
    IF \E i \in DOMAIN products : NameMatches(products[i], name)
    THEN products[CHOOSE i \in DOMAIN products :
                     /\ NameMatches(products[i], name)
                     /\ \A j \in DOMAIN products : NameMatches(products[j], name) => i <= j]
    ELSE NoRow

\* a bound text parameter: undefined is bound as NULL
BindText(v) == IF v = UNDEF THEN NULL ELSE v

\* `image || null`
ImageOrNull(v) == IF v = UNDEF \/ v = NULL \/ v = <<>> THEN NULL ELSE v

\* `stock || 0`
StockOrZero(v) == IF Truthy(v) THEN v ELSE Num(0)

\* a products table whose name column has no UNIQUE index
UniqueNameUnchecked(name, self) == TRUE

\* name TEXT NOT NULL UNIQUE COLLATE NOCASE (the row `self` is the one being written)
UniqueNameOk(name, self) ==
    \A i \in DOMAIN products : i # self => ~NocaseEq(products[i].name, name)

\* stock INTEGER NOT NULL DEFAULT 0 CHECK(stock >= 0): a text value sorts
\* above every number, so the check passes for it
StockCheckOk(v) == v.k = "num" => v.n >= 0

ProductConstraintsOk(row, self) ==
    /\ row.name # NULL
    /\ UniqueNameOk(row.name, self)
    /\ row.stock.k # "null"
    /\ StockCheckOk(row.stock)

\* the row written by ProductRepository.create: id from AUTOINCREMENT,
\* createdAt and updatedAt from DEFAULT CURRENT_TIMESTAMP
NewRow(id, data, now) ==
    [id |-> id,
     name |-> BindText(data.name), unit |-> BindText(data.unit),
     category |-> BindText(data.category), brand |-> BindText(data.brand),
     stock |-> IntegerAffinity(StockOrZero(data.stock)),
     status |-> BindText(data.status), image |-> ImageOrNull(data.image),
     createdAt |-> now, updatedAt |-> now]

InsertedRow(data) == NewRow(Len(products) + 1, data, clock)

\* an update that keeps the old image when the data brings none
UpdatedRowMerging(old, data) ==
    [id |-> old.id,
     name |-> BindText(data.name), unit |-> BindText(data.unit),
     category |-> BindText(data.category), brand |-> BindText(data.brand),
     stock |-> IntegerAffinity(data.stock),
     status |-> BindText(data.status),
     image |-> IF ImageOrNull(data.image) = NULL THEN old.image ELSE data.image,
     createdAt |-> old.createdAt, updatedAt |-> clock]

\* the row written by ProductRepository.update
UpdatedRow(old, data) ==
    [id |-> old.id,
     name |-> BindText(data.name), unit |-> BindText(data.unit),
     category |-> BindText(data.category), brand |-> BindText(data.brand),
     stock |-> IntegerAffinity(data.stock),
     status |-> BindText(data.status), image |-> ImageOrNull(data.image),
     createdAt |-> old.createdAt, updatedAt |-> clock]

\* createLog({productId, oldStock, newStock, changedBy = 'system'}); the field
\* call is bookkeeping: the number of the request that wrote the row.
SystemActor == <<"s", "y", "s", "t", "e", "m">>
\* a createLog whose parameter has no default
ChangedByAsGiven(actor) == actor

ChangedByOrDefault(actor) == IF actor = UNDEF THEN SystemActor ELSE actor

\* a createLog that binds the two stock values in the wrong order
LogRowSwapped(productId, oldStock, newStock, changedBy, call) ==
    [id |-> Len(logs) + 1, productId |-> productId,
     oldStock |-> IntegerAffinity(newStock), newStock |-> IntegerAffinity(oldStock),
     changedBy |-> ChangedByOrDefault(changedBy), timestamp |-> clock, call |-> call]

LogRow(productId, oldStock, newStock, changedBy, call) ==
    [id |-> Len(logs) + 1, productId |-> productId,
     oldStock |-> IntegerAffinity(oldStock), newStock |-> IntegerAffinity(newStock),
     changedBy |-> ChangedByOrDefault(changedBy), timestamp |-> clock, call |-> call]

(***************************************************************************)
(* Inputs.  Import rows come from the CSV parser, so every present field   *)
(* is a string and an absent column is undefined; update data comes from a *)
(* JSON body, so stock may be a number or null.                            *)
(***************************************************************************)
Rice == <<"R", "i", "c", "e">>
RiceLower == <<"r", "i", "c", "e">>
Oil == <<"O", "i", "l">>
Blank == <<" ">>
Kg == <<"k", "g">>
Food == <<"f", "o", "o", "d">>
Abc == <<"a", "b", "c">>
Active == <<"a", "c", "t", "i", "v", "e">>
Admin == <<"a", "d", "m", "i", "n">>

Data(name, unit, stock) ==
    [name |-> name, unit |-> unit, category |-> Food, brand |-> Abc,
     status |-> Active, stock |-> stock, image |-> UNDEF]

NoData == [name |-> UNDEF, unit |-> UNDEF, category |-> UNDEF, brand |-> UNDEF,
           status |-> UNDEF, stock |-> UndefV, image |-> UNDEF]

RowRice == Data(Rice, Kg, Str(<<"1">>))
RowRiceLower == Data(RiceLower, Kg, Str(<<"2">>))
RowOil == Data(Oil, Kg, Str(<<>>))
RowBlankName == Data(Blank, Kg, Str(<<"1">>))
RowBadStock == Data(Oil, Kg, Str(<<"-", "1">>))

Batches == {<<RowRice, RowOil>>, <<RowRiceLower>>, <<RowBlankName, RowRice>>,
            <<RowOil, RowBadStock>>, <<RowRice, RowRiceLower>>}

UpdateData == {Data(Rice, Kg, Num(2)), Data(RiceLower, Kg, Num(1)), Data(Oil, Kg, Num(1)),
               Data(RiceLower, Kg, NullV), Data(Rice, UNDEF, Num(1)), Data(Rice, Kg, Num(0 - 1))}
Ids == {1, 2}
Actors == {Admin, UNDEF}

\* The database file outlives the server process: the server starts on an
\* empty store or on one that earlier imports filled.
SeedStores == {<<>>, <<NewRow(1, RowRice, 0)>>, <<NewRow(1, RowRice, 0), NewRow(2, RowOil, 0)>>}

Slots == {1, 2}
MaxCalls == 2

(***************************************************************************)
(* Requests.  Each slot holds one request in flight: its position (pc),    *)
(* its arguments and locals, and its result.  rejected, made and dupRows   *)
(* record, per import row, what the store answered.  A read request keeps  *)
(* its parameters in query, the statement it built in sql and its answer   *)
(* in list and meta; an export keeps the generated CSV records in csv.     *)
(***************************************************************************)
Idle == [kind |-> "idle", pc |-> "idle", call |-> 0, id |-> 0, data |-> NoData,
         actor |-> UNDEF, existing |-> NoRow, rows |-> <<>>, i |-> 0,
         added |-> 0, skipped |-> 0, duplicates |-> <<>>,
         res |-> NoRes, ret |-> NoRow, rejected |-> {}, made |-> {}, dupRows |-> {},
         query |-> <<>>, sql |-> <<>>, list |-> <<>>, meta |-> <<>>, csv |-> <<>>]

Init ==
    /\ products \in SeedStores
    /\ logs = <<>>
    /\ clock = 0
    /\ req = [r \in Slots |-> Idle]
    /\ calls = 0

\* Slots are interchangeable: a new request takes the lowest free slot.
FreeSlot(r) == req[r].pc = "idle" /\ \A q \in Slots : q < r => req[q].pc # "idle"

Finish(r, res) == [req EXCEPT ![r].pc = "done", ![r].res = res]

(***************************************************************************)
(* updateProduct(id, updateData, changedBy)                                *)
(***************************************************************************)
\* an update that looks the product up before it validates the data
UpdateProductLookupFirst(r, id, data, actor) ==
    /\ FreeSlot(r)
    /\ calls < MaxCalls
    /\ calls' = calls + 1
    /\ req' = [req EXCEPT ![r] =
                 [Idle EXCEPT !.kind = "update", !.call = calls + 1, !.id = id,
                              !.data = data, !.actor = actor, !.pc = "u_findById"]]
    /\ UNCHANGED <<products, logs, clock>>

UpdateProduct(r, id, data, actor) ==
    /\ FreeSlot(r)
    /\ calls < MaxCalls
    /\ calls' = calls + 1
    /\ req' = [req EXCEPT ![r] =
                 [Idle EXCEPT !.kind = "update", !.call = calls + 1, !.id = id,
                              !.data = data, !.actor = actor,
                              !.pc = IF ValidateProductData(data) = NoRes THEN "u_findById" ELSE "done",
                              !.res = ValidateProductData(data)]]
    /\ UNCHANGED <<products, logs, clock>>

\* an update that never checks that the product exists
NotFoundIgnored(row) == FALSE

\* `!existingProduct`
NotFound(row) == row = NoRow

UpdateFindById(r) ==
    /\ req[r].pc = "u_findById"
    /\ req' = IF NotFound(FindById(req[r].id))
              THEN Finish(r, AppError("Product not found.", <<>>, 404))
              ELSE [req EXCEPT ![r].pc = "u_findByName", ![r].existing = FindById(req[r].id)]
    /\ UNCHANGED <<products, logs, clock, calls>>

NameConflict(byName, existing) == byName # NoRow /\ byName.id # existing.id

\* an update that logs whether or not the stock differs
StockChangedAlways(oldStock, newStock) == TRUE

\* `oldStock !== newStock`
StockChanged(oldStock, newStock) == oldStock # newStock

UpdateFindByName(r) ==
    /\ req[r].pc = "u_findByName"
    /\ req' = IF NameConflict(FindByName(req[r].data.name), req[r].existing)
              THEN Finish(r, AppError("Product name '%s' already exists.", req[r].data.name, 400))
              ELSE IF StockChanged(req[r].existing.stock, ToNumber(req[r].data.stock))
              THEN [req EXCEPT ![r].pc = "u_createLog"]
              ELSE [req EXCEPT ![r].pc = "u_update"]
    /\ UNCHANGED <<products, logs, clock, calls>>

\* a createLog that writes over the newest row instead of inserting
UpdateCreateLogOverwriting(r) ==
    /\ req[r].pc = "u_createLog"
    /\ logs' = IF logs = <<>>
               THEN <<LogRow(req[r].id, req[r].existing.stock,
                             ToNumber(req[r].data.stock), req[r].actor, req[r].call)>>
               ELSE [logs EXCEPT ![Len(logs)] =
                        [LogRow(req[r].id, req[r].existing.stock, ToNumber(req[r].data.stock),
                                req[r].actor, req[r].call) EXCEPT !.id = Len(logs)]]
    /\ req' = [req EXCEPT ![r].pc = "u_update"]
    /\ UNCHANGED <<products, clock, calls>>

UpdateCreateLog(r) ==
    /\ req[r].pc = "u_createLog"
    /\ logs' = Append(logs, LogRow(req[r].id, req[r].existing.stock,
                                   ToNumber(req[r].data.stock), req[r].actor, req[r].call))
    /\ req' = [req EXCEPT ![r].pc = "u_update"]
    /\ UNCHANGED <<products, clock, calls>>

\* UPDATE ... WHERE id = ? changes nothing when no row has that id
UpdateWrite(r) ==
    /\ req[r].pc = "u_update"
    /\ IF req[r].id \notin DOMAIN products
       THEN /\ req' = [req EXCEPT ![r].pc = "u_refetch"]
            /\ UNCHANGED products
       ELSE IF ProductConstraintsOk(UpdatedRow(products[req[r].id], req[r].data), req[r].id)
       THEN /\ products' = [products EXCEPT ![req[r].id] = UpdatedRow(products[req[r].id], req[r].data)]
            /\ req' = [req EXCEPT ![r].pc = "u_refetch"]
       ELSE /\ req' = Finish(r, StoreError)
            /\ UNCHANGED products
    /\ UNCHANGED <<logs, clock, calls>>

UpdateRefetch(r) ==
    /\ req[r].pc = "u_refetch"
    /\ req' = [req EXCEPT ![r].pc = "done", ![r].res = OkRes, ![r].ret = FindById(req[r].id)]
    /\ UNCHANGED <<products, logs, clock, calls>>

(***************************************************************************)
(* importProducts(csvData)                                                 *)
(***************************************************************************)
ImportProducts(r, rows) ==
    /\ FreeSlot(r)
    /\ calls < MaxCalls
    /\ calls' = calls + 1
    /\ req' = [req EXCEPT ![r] =
                 [Idle EXCEPT !.kind = "import", !.call = calls + 1, !.rows = rows,
                              !.i = 1, !.pc = "i_row"]]
    /\ UNCHANGED <<products, logs, clock>>

\* a catch block that moves on without counting the row
SkipUncounted(r) == [req EXCEPT ![r].i = @ + 1, ![r].pc = "i_row"]

\* a loop with no try/catch: the row's failure ends the import
SkipAborts(r) == [req EXCEPT ![r].pc = "done", ![r].res = StoreError]

\* `stats.skipped++` and on to the next row
Skip(r) == [req EXCEPT ![r].skipped = @ + 1, ![r].i = @ + 1, ![r].pc = "i_row"]

ImportRow(r) ==
    /\ req[r].pc = "i_row"
    /\ req' = IF req[r].i > Len(req[r].rows)
              THEN Finish(r, StatsRes)
              ELSE IF ValidateProductData(req[r].rows[req[r].i]) # NoRes
              THEN Skip(r)
              ELSE [req EXCEPT ![r].pc = "i_findByName"]
    /\ UNCHANGED <<products, logs, clock, calls>>

\* a duplicates entry that reports the row's position instead of the stored id
DuplicateWrongId(name, existing) == [name |-> name, existingId |-> Len(products) + 1]

Duplicate(name, existing) == [name |-> name, existingId |-> existing.id]

\* an import that overwrites the stored product with the duplicate row
ImportFindByNameOverwriting(r) ==
    /\ req[r].pc = "i_findByName"
    /\ IF FindByName(req[r].rows[req[r].i].name) # NoRow
       THEN /\ products' = [products EXCEPT ![FindByName(req[r].rows[req[r].i].name).id] =
                               NewRow(@.id, req[r].rows[req[r].i], clock)]
            /\ req' = [Skip(r) EXCEPT ![r].dupRows = @ \cup {req[r].i}]
       ELSE /\ req' = [req EXCEPT ![r].pc = "i_create"]
            /\ UNCHANGED products
    /\ UNCHANGED <<logs, clock, calls>>

ImportFindByName(r) ==
    /\ req[r].pc = "i_findByName"
    /\ req' = IF FindByName(req[r].rows[req[r].i].name) # NoRow
              THEN [Skip(r) EXCEPT ![r].duplicates =
                        Append(@, Duplicate(req[r].rows[req[r].i].name,
                                            FindByName(req[r].rows[req[r].i].name))),
                                   ![r].dupRows = @ \cup {req[r].i}]
              ELSE [req EXCEPT ![r].pc = "i_create"]
    /\ UNCHANGED <<products, logs, clock, calls>>

\* an import whose insert is outside the try block: a refused row ends the call
ImportCreateUncaught(r) ==
    /\ req[r].pc = "i_create"
    /\ IF ProductConstraintsOk(InsertedRow(req[r].rows[req[r].i]), 0)
       THEN /\ products' = Append(products, InsertedRow(req[r].rows[req[r].i]))
            /\ req' = [req EXCEPT ![r].pc = "i_created",
                                  ![r].made = @ \cup {<<req[r].i, Len(products) + 1>>}]
       ELSE /\ req' = Finish(r, StoreError)
            /\ UNCHANGED products
    /\ UNCHANGED <<logs, clock, calls>>

ImportCreate(r) ==
    /\ req[r].pc = "i_create"
    /\ IF ProductConstraintsOk(InsertedRow(req[r].rows[req[r].i]), 0)
       THEN /\ products' = Append(products, InsertedRow(req[r].rows[req[r].i]))
            /\ req' = [req EXCEPT ![r].pc = "i_created",
                                  ![r].made = @ \cup {<<req[r].i, Len(products) + 1>>}]
       ELSE /\ req' = [Skip(r) EXCEPT ![r].rejected = @ \cup {req[r].i}]
            /\ UNCHANGED products
    /\ UNCHANGED <<logs, clock, calls>>

\* create() re-reads the inserted row, then the import counts it
ImportCreated(r) ==
    /\ req[r].pc = "i_created"
    /\ req' = [req EXCEPT ![r].added = @ + 1, ![r].i = @ + 1, ![r].pc = "i_row"]
    /\ UNCHANGED <<products, logs, clock, calls>>

\* the controller sends the response and the request ends
Respond(r) ==
    /\ req[r].pc = "done"
    /\ req' = [req EXCEPT ![r] = Idle]
    /\ UNCHANGED <<products, logs, clock, calls>>

Next ==
    \/ \E r \in Slots, id \in Ids, data \in UpdateData, actor \in Actors :
          UpdateProduct(r, id, data, actor)
    \/ \E r \in Slots : UpdateFindById(r)
    \/ \E r \in Slots : UpdateFindByName(r)
    \/ \E r \in Slots : UpdateCreateLog(r)
    \/ \E r \in Slots : UpdateWrite(r)
    \/ \E r \in Slots : UpdateRefetch(r)
    \/ \E r \in Slots, rows \in Batches : ImportProducts(r, rows)
    \/ \E r \in Slots : ImportRow(r)
    \/ \E r \in Slots : ImportFindByName(r)
    \/ \E r \in Slots : ImportCreate(r)
    \/ \E r \in Slots : ImportCreated(r)
    \/ \E r \in Slots : Respond(r)

Spec == Init /\ [][Next]_vars

(***************************************************************************)
(* Properties                                                              *)
(***************************************************************************)
IsUpdate(r) == req[r].kind = "update"
IsImport(r) == req[r].kind = "import"
Succeeded(r) == req[r].pc = "done" /\ req[r].res = OkRes
LogsOf(r) == {l \in DOMAIN logs : logs[l].call = req[r].call}

\* C1: a successful updateProduct(id, data, actor) that read stock a for the
\* product and was given Number(data.stock) = b, a # b, has created exactly
\* one log row, and that row has productId = id, oldStock = a, newStock = b
\* and changedBy = actor (for a call that passes an actor).
C1_StockChangeLogged ==
    \A r \in Slots :
        (/\ IsUpdate(r) /\ Succeeded(r)
         /\ req[r].existing.stock # ToNumber(req[r].data.stock)
         /\ req[r].actor # UNDEF)
        => /\ Cardinality(LogsOf(r)) = 1
           /\ \A l \in LogsOf(r) :
                 /\ logs[l].productId = req[r].id
                 /\ logs[l].oldStock = req[r].existing.stock
                 /\ logs[l].newStock = ToNumber(req[r].data.stock)
                 /\ logs[l].changedBy = req[r].actor

C1_Witness ==
    \E r \in Slots :
        /\ IsUpdate(r) /\ Succeeded(r)
        /\ req[r].existing.stock # ToNumber(req[r].data.stock)
        /\ req[r].actor # UNDEF
        /\ LogsOf(r) # {}

\* C2: an updateProduct whose requested stock, read as a number, equals the
\* stock it read for the product creates no log row, at any point of the call.
C2_NoLogWhenUnchanged ==
    \A r \in Slots :
        (/\ IsUpdate(r)
         /\ req[r].existing # NoRow
         /\ req[r].existing.stock = ToNumber(req[r].data.stock))
        => LogsOf(r) = {}

C2_Witness ==
    \E r \in Slots :
        /\ IsUpdate(r) /\ Succeeded(r)
        /\ req[r].existing.stock = ToNumber(req[r].data.stock)
        /\ req[r].ret.name = req[r].data.name

\* the product write of request r has been applied to the store
Applied(r) == req[r].pc = "u_refetch" \/ Succeeded(r)

\* C3: for an update request that changes the stock, its log row exists if
\* and only if its product update has been applied, in every reachable state.
C3_AllOrNothing ==
    \A r \in Slots :
        (/\ IsUpdate(r)
         /\ req[r].existing # NoRow
         /\ req[r].existing.stock # ToNumber(req[r].data.stock))
        => (LogsOf(r) # {} <=> Applied(r))

ImportDone(r) == IsImport(r) /\ req[r].pc = "done"

\* C4: when importProducts returns, added + skipped is the number of rows;
\* while it runs, added + skipped is the number of rows already processed.
C4_EveryRowCountedOnce ==
    \A r \in Slots :
        /\ (IsImport(r) /\ req[r].pc = "i_row") => req[r].added + req[r].skipped = req[r].i - 1
        /\ ImportDone(r) => req[r].added + req[r].skipped = Len(req[r].rows)

C4_Witness ==
    \E r \in Slots :
        /\ ImportDone(r)
        /\ req[r].added >= 1
        /\ req[r].skipped >= 1
        /\ Len(req[r].rows) = 2

\* the stored products whose name equals `name` ignoring case
Owners(name) == {i \in DOMAIN products : Fold(products[i].name) = Fold(name)}

\* C5: every step of an import that changes its duplicates list appends one entry for
\* the row being processed: the row is valid, it is counted as skipped and
\* not as added, the entry names the row and the id of a stored product
\* whose name equals the row's name ignoring case, and the import moves to
\* the next row; a step on a row whose name no stored product has leaves
\* the list unchanged; the list never outnumbers the skipped rows.
C5_DuplicatesAreSkippedMatches ==
    [][\A r \in Slots :
          LET row == req[r].rows[req[r].i] IN
          /\ (req'[r].call = req[r].call /\ req'[r].duplicates # req[r].duplicates)
             => /\ IsImport(r) /\ req[r].i \in DOMAIN req[r].rows
                /\ ValidateProductData(row) = NoRes
                /\ \E id \in Owners(row.name) :
                      req'[r].duplicates = Append(req[r].duplicates, [name |-> row.name, existingId |-> id])
                /\ req'[r].skipped = req[r].skipped + 1
                /\ req'[r].added = req[r].added
                /\ req'[r].i = req[r].i + 1
                /\ Len(req'[r].duplicates) <= req'[r].skipped
          /\ (/\ IsImport(r) /\ req[r].i \in DOMAIN req[r].rows
              /\ req'[r].call = req[r].call
              /\ Owners(row.name) = {})
             => req'[r].duplicates = req[r].duplicates
      ]_vars

\* a duplicate of a product that an earlier row of the same batch added
C5_Witness ==
    \E r \in Slots :
        /\ ImportDone(r)
        /\ Len(req[r].duplicates) = 1
        /\ \E m \in req[r].made : m[2] = req[r].duplicates[1].existingId

RowInvalid(r, i) == ValidateProductData(req[r].rows[i]) # NoRes
RowSkipped(r, i) == RowInvalid(r, i) \/ i \in req[r].rejected \/ i \in req[r].dupRows

\* C6: importProducts returns statistics, never an error; every row that
\* fails validation or that the store rejects is counted in skipped, and
\* every valid row that is neither a duplicate nor rejected is counted in
\* added and its product is stored when the call returns.
C6_RowFailuresStayLocal ==
    \A r \in Slots :
        ImportDone(r)
        => /\ req[r].res = StatsRes
           /\ req[r].skipped = Cardinality({i \in DOMAIN req[r].rows : RowSkipped(r, i)})
           /\ req[r].added = Cardinality({i \in DOMAIN req[r].rows : ~RowSkipped(r, i)})
           /\ \A i \in DOMAIN req[r].rows :
                 ~RowSkipped(r, i) => \E m \in req[r].made : m[1] = i /\ m[2] \in DOMAIN products

\* a batch with a store-rejected row and a later row that was added
C6_Witness ==
    \E r \in Slots :
        /\ ImportDone(r)
        /\ \E i \in req[r].rejected : \E m \in req[r].made : m[1] > i /\ m[2] \in DOMAIN products

\* C7: no two stored products have names that are equal ignoring case.
C7_NamesUniqueIgnoringCase ==
    \A i, j \in DOMAIN products :
        i # j => Fold(products[i].name) # Fold(products[j].name)

\* the store has refused a write whose name another product holds
C7_Witness ==
    \E r \in Slots :
        \/ req[r].rejected # {}
        \/ /\ IsUpdate(r) /\ req[r].pc = "done" /\ req[r].res = StoreError
           /\ Owners(req[r].data.name) \ {req[r].id} # {}

ConflictError(name) == AppError("Product name '%s' already exists.", name, 400)
NotFoundError == AppError("Product not found.", <<>>, 404)

\* the stored products other than the one request r names that hold r's new name
OtherOwners(r) == Owners(req[r].data.name) \ {req[r].id}

\* request r takes a step of its call
Steps(r) == req'[r] # req[r] /\ req'[r].call = req[r].call

\* C8 as stated: an update with valid data that checks the store while a
\* product with a different id holds its name (ignoring case) fails with
\* "Product name '<name>' already exists." (400), creating no log row and
\* changing no product.
C8_ConflictWheneverNameOwned ==
    [][\A r \in Slots :
          (/\ IsUpdate(r) /\ Steps(r)
           /\ req[r].pc \in {"u_findById", "u_findByName"}
           /\ ValidateProductData(req[r].data) = NoRes
           /\ OtherOwners(r) # {})
          => /\ req'[r].pc = "done" => req'[r].res = ConflictError(req[r].data.name)
             /\ req[r].pc = "u_findByName" => req'[r].pc = "done"
             /\ UNCHANGED <<products, logs>>
             /\ LogsOf(r) = {}
      ]_vars

\* C8 amended: an update with valid data for an id that has a stored
\* product, whose name check finds the name (ignoring case) held by a
\* product with a different id, fails with "Product name '<name>' already
\* exists." (400); no step of the call up to that failure creates a log row
\* or changes a product.
C8_ConflictOnExistingProduct ==
    [][\A r \in Slots :
          /\ (/\ IsUpdate(r) /\ Steps(r)
              /\ req[r].pc = "u_findByName"
              /\ ValidateProductData(req[r].data) = NoRes
              /\ OtherOwners(r) # {})
             => /\ req'[r].pc = "done"
                /\ req'[r].res = ConflictError(req[r].data.name)
                /\ LogsOf(r) = {}
          /\ (/\ req'[r].kind = "update" /\ req'[r] # req[r]
              /\ req[r].pc \in {"idle", "u_findById", "u_findByName"})
             => UNCHANGED <<products, logs>>
      ]_vars

C8_Witness ==
    \E r \in Slots :
        /\ IsUpdate(r) /\ req[r].pc = "done"
        /\ req[r].res = ConflictError(req[r].data.name)
        /\ req[r].existing # NoRow
        /\ OtherOwners(r) # {}

\* C9: an update of an existing product with valid data whose name is the
\* product's own name in any letter case, and which met no name conflict,
\* ends in success.
C9_OwnNameSucceeds ==
    \A r \in Slots :
        (/\ IsUpdate(r) /\ req[r].pc = "done"
         /\ ValidateProductData(req[r].data) = NoRes
         /\ req[r].existing # NoRow
         /\ Fold(req[r].data.name) = Fold(req[r].existing.name)
         /\ req[r].res # ConflictError(req[r].data.name))
        => req[r].res = OkRes

\* C10: an update with valid data that looks up an id with no stored
\* product fails with 'Product not found.' (404); no step of the call up to
\* that failure creates a log row, creates a product or changes one.
C10_UnknownIdNotFound ==
    [][\A r \in Slots :
          /\ (/\ IsUpdate(r) /\ Steps(r)
              /\ req[r].pc = "u_findById"
              /\ ValidateProductData(req[r].data) = NoRes
              /\ req[r].id \notin DOMAIN products)
             => /\ req'[r].pc = "done"
                /\ req'[r].res = NotFoundError
                /\ LogsOf(r) = {}
          /\ (/\ req'[r].kind = "update" /\ req'[r] # req[r]
              /\ req[r].pc \in {"idle", "u_findById"})
             => UNCHANGED <<products, logs>>
      ]_vars

C10_Witness ==
    \E r \in Slots :
        /\ IsUpdate(r) /\ req[r].pc = "done"
        /\ req[r].res = NotFoundError
        /\ req[r].id \notin DOMAIN products
        /\ LogsOf(r) = {}

(***************************************************************************)
(* Time.  CURRENT_TIMESTAMP has a resolution of one second: clock is the   *)
(* current second, and statements run within one second read the same      *)
(* value.                                                                  *)
(***************************************************************************)
MaxTime == 1

Tick ==
    /\ clock < MaxTime
    /\ clock' = clock + 1
    /\ UNCHANGED <<products, logs, req, calls>>

(***************************************************************************)
(* getProductHistory(productId).  Reading requests are not numbered: they  *)
(* carry call 0 and do not count against MaxCalls.                         *)
(***************************************************************************)
GetProductHistory(r, id) ==
    /\ FreeSlot(r)
    /\ req' = [req EXCEPT ![r] = [Idle EXCEPT !.kind = "history", !.id = id,
                                              !.pc = "h_findById"]]
    /\ UNCHANGED <<products, logs, clock, calls>>

HistoryFindById(r) ==
    /\ req[r].pc = "h_findById"
    /\ req' = IF FindById(req[r].id) = NoRow
              THEN Finish(r, AppError("Product not found.", <<>>, 404))
              ELSE [req EXCEPT ![r].pc = "h_findLogs"]
    /\ UNCHANGED <<products, logs, clock, calls>>

\* a query with no WHERE clause
MatchingLogsAll(id) == DOMAIN logs

\* WHERE productId = ?
MatchingLogs(id) == {l \in DOMAIN logs : logs[l].productId = id}

\* ORDER BY timestamp DESC
OrderedByTimestampDesc(s) ==
    \A i, j \in DOMAIN s : i < j => s[i].timestamp >= s[j].timestamp

\* The answers SQLite may give: the matching rows, each once, in an order
\* that satisfies the ORDER BY; the order of rows with equal timestamps is
\* not determined by the statement.
FindLogsByProductId(id) ==
    {s \in [1..Cardinality(MatchingLogs(id)) -> {logs[l] : l \in MatchingLogs(id)}] :
        /\ \A i, j \in DOMAIN s : i # j => s[i] # s[j]
        /\ OrderedByTimestampDesc(s)}

HistoryFindLogs(r) ==
    /\ req[r].pc = "h_findLogs"
    /\ \E s \in FindLogsByProductId(req[r].id) :
          req' = [req EXCEPT ![r].pc = "done", ![r].res = OkRes, ![r].list = s]
    /\ UNCHANGED <<products, logs, clock, calls>>

HistoryData == {Data(Rice, Kg, Num(2)), Data(RiceLower, Kg, Num(1)), Data(Oil, Kg, Num(1))}

NextHistory ==
    \/ Tick
    \/ \E r \in Slots, id \in Ids, data \in HistoryData : UpdateProduct(r, id, data, Admin)
    \/ \E r \in Slots : UpdateFindById(r)
    \/ \E r \in Slots : UpdateFindByName(r)
    \/ \E r \in Slots : UpdateCreateLog(r)
    \/ \E r \in Slots : UpdateWrite(r)
    \/ \E r \in Slots : UpdateRefetch(r)
    \/ \E r \in Slots, id \in Ids : GetProductHistory(r, id)
    \/ \E r \in Slots : HistoryFindById(r)
    \/ \E r \in Slots : HistoryFindLogs(r)
    \/ \E r \in Slots : Respond(r)

SpecHistory == Init /\ [][NextHistory]_vars

IsHistory(r) == req[r].kind = "history"
Stored(id) == \E p \in DOMAIN products : products[p].id = id

\* C11: the step of getProductHistory(productId) that looks the product up
\* ends the request with 'Product not found.' (404) exactly when no product
\* with that id is stored, and the step that reads the logs returns every
\* log row whose productId is that id, each once, and no other row.
C11_HistoryOfStoredProduct ==
    [][\A r \in Slots :
          /\ (req[r].pc = "h_findById" /\ req'[r] # req[r])
             => /\ (req'[r].pc = "done" /\ req'[r].res = NotFoundError) <=> ~Stored(req[r].id)
                /\ req'[r].pc = "h_findLogs" <=> Stored(req[r].id)
          /\ (req[r].pc = "h_findLogs" /\ req'[r] # req[r])
             => /\ req'[r].res = OkRes
                /\ Stored(req[r].id)
                /\ Len(req'[r].list) = Cardinality({l \in DOMAIN logs : logs[l].productId = req[r].id})
                /\ \A l \in DOMAIN logs :
                      logs[l].productId = req[r].id
                      <=> \E i \in DOMAIN req'[r].list : req'[r].list[i] = logs[l]]_vars

\* a history of a product that holds rows while another product has rows too
C11_Witness ==
    \E r \in Slots :
        /\ IsHistory(r) /\ Succeeded(r)
        /\ req[r].list # <<>>
        /\ \E l \in DOMAIN logs : logs[l].productId # req[r].id

\* C12: a returned history lists the log rows newest first: of any two rows
\* in it, the one created later (the larger AUTOINCREMENT id) comes first.
C12_NewestFirst ==
    \A r \in Slots :
        (IsHistory(r) /\ Succeeded(r))
        => \A i, j \in DOMAIN req[r].list :
              i < j => req[r].list[i].id > req[r].list[j].id

(***************************************************************************)
(* Stock values.  A JSON body may carry the stock as a string, and a CSV   *)
(* cell is always a string; Number() reads the empty and the blank string  *)
(* as 0.                                                                   *)
(***************************************************************************)
RowBlankStock == Data(Oil, Kg, Str(<<" ">>))

StockData == {Data(Rice, Kg, Str(<<>>)), Data(Rice, Kg, Num(2)), Data(Oil, Kg, Str(<<"3">>))}
StockBatches == {<<RowRice, RowOil>>, <<RowBlankStock>>}

NextStock ==
    \/ \E r \in Slots, id \in Ids, data \in StockData : UpdateProduct(r, id, data, Admin)
    \/ \E r \in Slots : UpdateFindById(r)
    \/ \E r \in Slots : UpdateFindByName(r)
    \/ \E r \in Slots : UpdateCreateLog(r)
    \/ \E r \in Slots : UpdateWrite(r)
    \/ \E r \in Slots : UpdateRefetch(r)
    \/ \E r \in Slots, rows \in StockBatches : ImportProducts(r, rows)
    \/ \E r \in Slots : ImportRow(r)
    \/ \E r \in Slots : ImportFindByName(r)
    \/ \E r \in Slots : ImportCreate(r)
    \/ \E r \in Slots : ImportCreated(r)
    \/ \E r \in Slots : Respond(r)

SpecStock == Init /\ [][NextStock]_vars

\* C13: every stored product's stock is an integer greater than or equal to 0.
C13_StockIsNonNegativeInteger ==
    \A p \in DOMAIN products :
        products[p].stock.k = "num" /\ products[p].stock.n >= 0

(***************************************************************************)
(* _validateProductData on its own.  The function has no await, so a call  *)
(* is one step; the inputs range over present, empty, blank, null and      *)
(* undefined fields and over stock values of every kind.                   *)
(***************************************************************************)
FieldValues == {Kg, Blank, <<>>, NULL, UNDEF}
StockValues == {Num(1), Num(0), Num(0 - 1), NullV, UndefV, Str(<<>>), Str(<<"-", "1">>),
                Str(<<"x">>), Str(<<" ", "2", " ">>)}
ValidateInputs ==
    {[name |-> n, unit |-> u, category |-> c, brand |-> b, status |-> s, stock |-> k, image |-> UNDEF] :
        n \in FieldValues, u \in FieldValues, c \in {Food, Blank, UNDEF}, b \in {Abc, NULL},
        s \in {Active, <<>>}, k \in StockValues}

Validate(r, data) ==
    /\ req[r].pc = "idle"
    /\ req' = [req EXCEPT ![r] = [Idle EXCEPT !.kind = "validate", !.data = data, !.pc = "done",
                                              !.res = ValidateProductData(data)]]
    /\ UNCHANGED <<products, logs, clock, calls>>

NextValidate ==
    \/ \E data \in ValidateInputs : Validate(1, data)
    \/ Respond(1)

SpecValidate == Init /\ [][NextValidate]_vars

IsValidate(r) == req[r].kind = "validate"
FieldOrder == <<"name", "unit", "category", "brand", "status">>
\* undefined, null, or nothing but spaces
Absent(v) == v = UNDEF \/ v = NULL \/ \A i \in DOMAIN v : v[i] = " "
AbsentFields(data) == {i \in DOMAIN FieldOrder : Absent(data[FieldOrder[i]])}
BadStock(data) ==
    \/ ToNumber(data.stock).k = "nan"
    \/ ToNumber(data.stock).k = "num" /\ ToNumber(data.stock).n < 0

\* C14: _validateProductData(data) throws "Product field '<field>' is
\* required." (400) for the first of name, unit, category, brand, status that
\* is undefined, null or blank, if there is one; otherwise it throws 'Stock
\* must be a non-negative number.' (400) when Number(data.stock) is NaN or
\* below 0; otherwise it returns; and the call changes no stored row.
C14_ValidationVerdict ==
    [][(req[1].pc = "idle" /\ req'[1].kind = "validate")
       => /\ products' = products /\ logs' = logs
          /\ LET data == req'[1].data
                 res == req'[1].res
             IN  /\ (AbsentFields(data) # {})
                    => \E i \in AbsentFields(data) :
                          /\ \A j \in AbsentFields(data) : i <= j
                          /\ res = AppError("Product field '%s' is required.", FieldOrder[i], 400)
                 /\ (AbsentFields(data) = {} /\ BadStock(data))
                    => res = AppError("Stock must be a non-negative number.", <<>>, 400)
                 /\ (AbsentFields(data) = {} /\ ~BadStock(data)) => res = NoRes]_vars

\* a blank unit together with an invalid stock: the field is what is reported
C14_Witness ==
    /\ IsValidate(1)
    /\ req[1].data.name = Kg /\ req[1].data.unit = Blank
    /\ req[1].data.stock = Num(0 - 1)
    /\ req[1].res = AppError("Product field '%s' is required.", "unit", 400)

(***************************************************************************)
(* getProducts(params): findAll, then getProductCount.  params is the      *)
(* request's query object, so every present parameter is a string.         *)
(***************************************************************************)
\* ASCII codes of the characters the model uses
CharCode(c) == IF IndexIn(c, LowerCase) # 0 THEN 96 + IndexIn(c, LowerCase)
               ELSE IF IndexIn(c, UpperCase) # 0 THEN 64 + IndexIn(c, UpperCase)
               ELSE IF IndexIn(c, Digits) # 0 THEN 47 + IndexIn(c, Digits)
               ELSE IF c = "-" THEN 45
               ELSE IF c = "+" THEN 43
               ELSE 32

\* memcmp order of two texts
RECURSIVE TextLeq(_, _)
TextLeq(a, b) == IF a = <<>> THEN TRUE
                 ELSE IF b = <<>> THEN FALSE
                 ELSE IF CharCode(Head(a)) # CharCode(Head(b)) THEN CharCode(Head(a)) < CharCode(Head(b))
                 ELSE TextLeq(Tail(a), Tail(b))

\* SQLite's order of two stored stock values: numbers before texts
StockLeq(a, b) == IF a.k = "num" /\ b.k = "num" THEN a.n <= b.n
                  ELSE IF a.k = "num" THEN TRUE
                  ELSE IF b.k = "num" THEN FALSE
                  ELSE TextLeq(a.s, b.s)

\* the order ORDER BY <column> uses; name is declared COLLATE NOCASE
ColumnLeq(column, a, b) ==
    CASE column = "name" -> TextLeq(Fold(a.name), Fold(b.name))
      [] column = "stock" -> StockLeq(a.stock, b.stock)
      [] column = "createdAt" -> a.createdAt <= b.createdAt
      [] column = "updatedAt" -> a.updatedAt <= b.updatedAt

\* String.prototype.toUpperCase
UpperChar(c) == IF IndexIn(c, LowerCase) # 0 THEN UpperCase[IndexIn(c, LowerCase)] ELSE c
ToUpperCase(s) == [i \in DOMAIN s |-> UpperChar(s[i])]

SortName == <<"n", "a", "m", "e">>
SortStock == <<"s", "t", "o", "c", "k">>
SortUpdatedAt == <<"u", "p", "d", "a", "t", "e", "d", "A", "t">>
SortCreatedAt == <<"c", "r", "e", "a", "t", "e", "d", "A", "t">>
\* ['name', 'stock', 'updatedAt', 'createdAt']
SortAllowList == {SortName, SortStock, SortUpdatedAt, SortCreatedAt}
ColumnOf(sortField) == CASE sortField = SortName -> "name"
                         [] sortField = SortStock -> "stock"
                         [] sortField = SortUpdatedAt -> "updatedAt"
                         [] sortField = SortCreatedAt -> "createdAt"

Desc == <<"D", "E", "S", "C">>

\* a direction test that compares the parameter as given
IsDescExact(sortOrder) == sortOrder = Desc

\* sortOrder?.toUpperCase() === 'DESC'
IsDesc(sortOrder) == sortOrder # UNDEF /\ ToUpperCase(sortOrder) = Desc

\* `if (searchName)`: undefined and the empty string add no WHERE clause
Filters(searchName) == searchName # UNDEF /\ searchName # NULL /\ searchName # <<>>

\* name LIKE '%s%': s occurs in the name, ASCII letters compared without case
Like(name, s) ==
    \E i \in 0..(Len(name) - Len(s)) : Fold(SubSeq(name, i + 1, i + Len(s))) = Fold(s)

Selected(searchName) ==
    {p \in DOMAIN products : Filters(searchName) => Like(products[p].name, searchName)}

\* the statement findAll builds
FindAllSql(searchName, sortField, sortOrder) ==
    [where |-> IF Filters(searchName) THEN searchName ELSE UNDEF,
     orderBy |-> IF sortField # UNDEF /\ sortField # <<>> /\ sortField \in SortAllowList
                 THEN ColumnOf(sortField) ELSE "updatedAt",
     desc |-> IF sortField # UNDEF /\ sortField # <<>> /\ sortField \in SortAllowList
              THEN IsDesc(sortOrder) ELSE TRUE]

Ordered(s, column, desc) ==
    \A i, j \in DOMAIN s :
        i < j => IF desc THEN ColumnLeq(column, s[j], s[i]) ELSE ColumnLeq(column, s[i], s[j])

\* LIMIT ? OFFSET ? (both are bound whenever getProducts calls findAll)
Slice(s, limit, offset) ==
    IF limit = UndefV \/ offset = UndefV THEN s
    ELSE SubSeq(s, offset.n + 1, IF offset.n + limit.n < Len(s) THEN offset.n + limit.n ELSE Len(s))

\* The answers SQLite may give to findAll: the selected rows, each once, in
\* an order that satisfies the ORDER BY, cut to the page; rows with equal
\* keys may come in either order.
FindAll(limit, offset, searchName, sortField, sortOrder) ==
    {Slice(s, limit, offset) :
        s \in {o \in [1..Cardinality(Selected(searchName)) -> {products[p] : p \in Selected(searchName)}] :
                 /\ \A i, j \in DOMAIN o : i # j => o[i] # o[j]
                 /\ Ordered(o, FindAllSql(searchName, sortField, sortOrder).orderBy,
                            FindAllSql(searchName, sortField, sortOrder).desc)}}

\* a count that ignores the filter
GetProductCountAll(searchName) == Len(products)

\* SELECT COUNT(*) FROM products [WHERE name LIKE ?]
GetProductCount(searchName) == Cardinality(Selected(searchName))

\* Math.ceil(a / b) for a >= 0, b >= 1
Ceil(a, b) == (a + b - 1) \div b

\* `page = 1`, `limit = 10`: the defaults apply to an absent parameter only
PageOf(q) == IF q.page = UndefV THEN 1 ELSE ToNumber(q.page).n
LimitOf(q) == IF q.limit = UndefV THEN 10 ELSE ToNumber(q.limit).n
\* (Number(page) - 1) * Number(limit)
OffsetOf(q) == (PageOf(q) - 1) * LimitOf(q)

GetProducts(r, q) ==
    /\ FreeSlot(r)
    /\ req' = [req EXCEPT ![r] = [Idle EXCEPT !.kind = "list", !.query = q, !.pc = "l_findAll"]]
    /\ UNCHANGED <<products, logs, clock, calls>>

\* Listings write nothing and so do not affect one another: where listings
\* are not compared with each other, one runs at a time.
NoListing == \A s \in Slots : req[s].kind # "list"

ListFindAll(r) ==
    /\ req[r].pc = "l_findAll"
    /\ \E s \in FindAll(Num(LimitOf(req[r].query)), Num(OffsetOf(req[r].query)), req[r].query.name,
                        req[r].query.sort, req[r].query.order) :
          req' = [req EXCEPT ![r].pc = "l_count", ![r].list = s,
                             ![r].sql = FindAllSql(req[r].query.name, req[r].query.sort,
                                                   req[r].query.order)]
    /\ UNCHANGED <<products, logs, clock, calls>>

ListCount(r) ==
    /\ req[r].pc = "l_count"
    /\ req' = [req EXCEPT ![r].pc = "done", ![r].res = OkRes,
                          ![r].meta = [totalItems |-> GetProductCount(req[r].query.name),
                                       totalPages |-> Ceil(GetProductCount(req[r].query.name),
                                                           LimitOf(req[r].query)),
                                       currentPage |-> PageOf(req[r].query),
                                       limit |-> LimitOf(req[r].query)]]
    /\ UNCHANGED <<products, logs, clock, calls>>

Query(page, limit, name, search, sort, order) ==
    [page |-> page, limit |-> limit, name |-> name, search |-> search, sort |-> sort, order |-> order]

PagingQueries ==
    {Query(page, limit, name, UNDEF, UNDEF, UNDEF) :
        page \in {UndefV, Str(<<"1">>), Str(<<"2">>)},
        limit \in {UndefV, Str(<<"1">>), Str(<<"2">>)},
        name \in {UNDEF, <<"i">>, <<"r", "I">>}}
SortingQueries ==
    {Query(UndefV, UndefV, UNDEF, UNDEF, sort, order) :
        sort \in SortAllowList \cup {UNDEF, <<"N", "a", "m", "e">>, <<"i", "d">>},
        order \in {UNDEF, Desc, <<"d", "e", "s", "c">>, <<"A", "S", "C">>, <<"x">>}}
SearchQueries ==
    {Query(UndefV, limit, UNDEF, <<"o", "i", "l">>, UNDEF, UNDEF) : limit \in {UndefV, Str(<<"1">>)}}
Queries == PagingQueries \cup SortingQueries \cup SearchQueries

RowAbc == Data(Abc, Kg, Str(<<"5">>))
ListBatches == {<<RowAbc>>}

\* Stores for the listings: empty, or Rice and Oil imported at second 0 and
\* Rice updated to stock 7 at second 1.  The listings run in second 1 while
\* imports add the product abc.
ListStores == {<<>>,
               <<UpdatedRow(NewRow(1, RowRice, 0), Data(Rice, Kg, Num(7))), NewRow(2, RowOil, 0)>>}

InitList ==
    /\ clock = 1
    /\ products \in ListStores
    /\ logs = <<>>
    /\ req = [r \in Slots |-> Idle]
    /\ calls = 0

NextList ==
    \/ \E r \in Slots, rows \in ListBatches : ImportProducts(r, rows)
    \/ \E r \in Slots : ImportRow(r)
    \/ \E r \in Slots : ImportFindByName(r)
    \/ \E r \in Slots : ImportCreate(r)
    \/ \E r \in Slots : ImportCreated(r)
    \/ \E r \in Slots, q \in Queries : NoListing /\ GetProducts(r, q)
    \/ \E r \in Slots : ListFindAll(r)
    \/ \E r \in Slots : ListCount(r)
    \/ \E r \in Slots : Respond(r)

SpecList == InitList /\ [][NextList]_vars

IsList(r) == req[r].kind = "list"

\* C15: for getProducts with page >= 1 and limit >= 1 (1 and 10 when absent)
\* the returned pagination has totalItems = the number of stored products
\* whose name matches the name filter (all of them without a filter),
\* totalPages = the ceiling of totalItems / limit, currentPage = page and
\* limit = limit.
C15_PaginationMetadata ==
    [][\A r \in Slots :
          (req[r].pc = "l_count" /\ req'[r].pc = "done")
          => LET q == req[r].query
                 page == IF q.page = UndefV THEN 1 ELSE ToNumber(q.page).n
                 limit == IF q.limit = UndefV THEN 10 ELSE ToNumber(q.limit).n
                 matching == {p \in DOMAIN products :
                                 q.name \in {UNDEF, <<>>} \/ Like(products[p].name, q.name)}
                 meta == req'[r].meta
             IN  (page >= 1 /\ limit >= 1)
                 => /\ meta.totalItems = Cardinality(matching)
                    /\ meta.totalPages * limit >= meta.totalItems
                    /\ (meta.totalPages - 1) * limit < meta.totalItems
                    /\ meta.totalPages >= 0
                    /\ meta.currentPage = page
                    /\ meta.limit = limit]_vars

\* page 2 of pages of one item, with a filter that leaves out a stored product
C15_Witness ==
    \E r \in Slots :
        /\ IsList(r) /\ Succeeded(r)
        /\ req[r].query.page = Str(<<"2">>) /\ req[r].query.limit = Str(<<"1">>)
        /\ req[r].query.name = <<"i">>
        /\ req[r].meta.totalItems = 2 /\ req[r].meta.totalPages = 2
        /\ Len(products) = 3

\* C16: the statement findAll runs orders by the requested sort field when
\* that field is one of name, stock, createdAt, updatedAt, descending exactly
\* when the requested order equals 'DESC' ignoring case and ascending
\* otherwise; for an absent or any other field it orders by updatedAt
\* descending, the requested text is no part of the statement, and the
\* returned rows come in that order.
C16_OrderingFromAllowList ==
    [][\A r \in Slots :
          (req[r].pc = "l_findAll" /\ req'[r].pc = "l_count")
          => LET q == req[r].query
                 allowed == q.sort \in {<<"n", "a", "m", "e">>, <<"s", "t", "o", "c", "k">>,
                                        <<"c", "r", "e", "a", "t", "e", "d", "A", "t">>,
                                        <<"u", "p", "d", "a", "t", "e", "d", "A", "t">>}
                 column == IF ~allowed THEN "updatedAt"
                           ELSE IF q.sort = <<"n", "a", "m", "e">> THEN "name"
                           ELSE IF q.sort = <<"s", "t", "o", "c", "k">> THEN "stock"
                           ELSE IF q.sort = <<"c", "r", "e", "a", "t", "e", "d", "A", "t">> THEN "createdAt"
                           ELSE "updatedAt"
                 desc == IF allowed THEN q.order # UNDEF /\ NocaseEq(q.order, <<"D", "E", "S", "C">>)
                         ELSE TRUE
                 list == req'[r].list
             IN  /\ req'[r].sql.orderBy = column
                 /\ req'[r].sql.desc = desc
                 /\ \A i, j \in DOMAIN list :
                       i < j => IF desc THEN ColumnLeq(column, list[j], list[i])
                                ELSE ColumnLeq(column, list[i], list[j])]_vars

\* three products listed by stock with order 'desc': 7, 5, 0
C16_Witness ==
    \E r \in Slots :
        /\ IsList(r) /\ Succeeded(r)
        /\ req[r].query.sort = SortStock /\ req[r].query.order = <<"d", "e", "s", "c">>
        /\ Len(req[r].list) = 3
        /\ req[r].list[1].stock = Num(7) /\ req[r].list[2].stock = Num(5)
        /\ req[r].list[3].stock = Num(0)

\* C17: a completed GET /products whose query carries search = s returns
\* only products whose name contains s ignoring case, and its
\* pagination.totalItems counts only such products.
C17_SearchParameterFilters ==
    \A r \in Slots :
        (IsList(r) /\ Succeeded(r) /\ req[r].query.search # UNDEF)
        => /\ \A i \in DOMAIN req[r].list : Like(req[r].list[i].name, req[r].query.search)
           /\ req[r].meta.totalItems <=
                 Cardinality({p \in DOMAIN products : Like(products[p].name, req[r].query.search)})

(***************************************************************************)
(* CSV export and the way back.  generateCsv writes one record per product *)
(* with the ten columns; a number is written in decimal, null as an empty  *)
(* cell.  parseCsv lower-cases the header names and yields every cell as a *)
(* string.  Quoting and line handling are the libraries' and are not       *)
(* modelled: a cell's text comes back as it went out.                      *)
(***************************************************************************)
RECURSIVE NumberToText(_)
NumberToText(n) == IF n < 0 THEN <<"-">> \o NumberToText(0 - n)
                   ELSE IF n < 10 THEN <<Digits[n + 1]>>
                   ELSE NumberToText(n \div 10) \o <<Digits[(n % 10) + 1]>>

CsvText(v) == IF v = NULL \/ v = UNDEF THEN <<>> ELSE v
CsvStock(v) == CASE v.k = "num" -> NumberToText(v.n)
                 [] v.k = "str" -> v.s
                 [] OTHER -> <<>>

GenerateCsv(rows) ==
    [i \in DOMAIN rows |->
        [id |-> NumberToText(rows[i].id), name |-> CsvText(rows[i].name),
         unit |-> CsvText(rows[i].unit), category |-> CsvText(rows[i].category),
         brand |-> CsvText(rows[i].brand), stock |-> CsvStock(rows[i].stock),
         status |-> CsvText(rows[i].status), image |-> CsvText(rows[i].image),
         createdAt |-> NumberToText(rows[i].createdAt),
         updatedAt |-> NumberToText(rows[i].updatedAt)]]

ParseCsv(records) ==
    [i \in DOMAIN records |->
        [id |-> records[i].id, name |-> records[i].name, unit |-> records[i].unit,
         category |-> records[i].category, brand |-> records[i].brand,
         stock |-> Str(records[i].stock), status |-> records[i].status,
         image |-> records[i].image, createdat |-> records[i].createdAt,
         updatedat |-> records[i].updatedAt]]

\* GET /products/export: getAllProducts (findAll({})), then generateCsv
ExportProducts(r) ==
    /\ FreeSlot(r)
    /\ req' = [req EXCEPT ![r] = [Idle EXCEPT !.kind = "export", !.pc = "e_findAll"]]
    /\ UNCHANGED <<products, logs, clock, calls>>

ExportFindAll(r) ==
    /\ req[r].pc = "e_findAll"
    /\ \E s \in FindAll(UndefV, UndefV, UNDEF, UNDEF, UNDEF) :
          req' = [req EXCEPT ![r].pc = "done", ![r].res = OkRes, ![r].list = s,
                             ![r].csv = GenerateCsv(s)]
    /\ UNCHANGED <<products, logs, clock, calls>>

\* Store contents that imports and updates produce, in export order: the two
\* imported products; Rice after an update that sent stock ''; a product
\* imported with a blank stock cell; Rice after an update to stock 12.
RoundTripStores ==
    {<<NewRow(1, RowRice, 0), NewRow(2, RowOil, 0)>>,
     <<UpdatedRow(NewRow(1, RowRice, 0), Data(Rice, Kg, Str(<<>>))), NewRow(2, RowOil, 0)>>,
     <<NewRow(1, RowBlankStock, 0)>>,
     <<UpdatedRow(NewRow(1, RowRice, 0), Data(RiceLower, Kg, Num(12)))>>}

InitEmpty ==
    /\ products = <<>>
    /\ logs = <<>>
    /\ clock = 0
    /\ req = [r \in Slots |-> Idle]
    /\ calls = 0

NextRoundTrip ==
    \/ \E r \in Slots, s \in RoundTripStores : ImportProducts(r, ParseCsv(GenerateCsv(s)))
    \/ \E r \in Slots : ImportRow(r)
    \/ \E r \in Slots : ImportFindByName(r)
    \/ \E r \in Slots : ImportCreate(r)
    \/ \E r \in Slots : ImportCreated(r)
    \/ \E r \in Slots : ExportProducts(r)
    \/ \E r \in Slots : ExportFindAll(r)
    \/ \E r \in Slots : Respond(r)

SpecRoundTrip == InitEmpty /\ [][NextRoundTrip]_vars

SameProduct(a, b) ==
    /\ a.name = b.name /\ a.unit = b.unit /\ a.category = b.category /\ a.brand = b.brand
    /\ a.stock = b.stock /\ a.status = b.status /\ a.image = b.image

\* C18: when the first import into an empty store is given the rows parsed
\* from the export of a store, it adds every row, skips none, and leaves
\* products equal to the exported ones in name, unit, category, brand, stock,
\* status and image.
C18_ExportImportRoundTrip ==
    \A r \in Slots, s \in RoundTripStores :
        (/\ IsImport(r) /\ req[r].pc = "done" /\ calls = 1
         /\ req[r].rows = ParseCsv(GenerateCsv(s)))
        => /\ req[r].added = Len(s) /\ req[r].skipped = 0
           /\ Len(products) = Len(s)
           /\ \A i \in DOMAIN s : SameProduct(products[i], s[i])

(***************************************************************************)
(* All five operations together: import, update, listing, history and      *)
(* export, over the tables products and inventory_logs.                    *)
(***************************************************************************)
LogsData == {Data(Rice, Kg, Num(2)), Data(Oil, Kg, Num(1))}

NextLogs ==
    \/ \E r \in Slots, id \in Ids, data \in LogsData : UpdateProduct(r, id, data, Admin)
    \/ \E r \in Slots : UpdateFindById(r)
    \/ \E r \in Slots : UpdateFindByName(r)
    \/ \E r \in Slots : UpdateCreateLog(r)
    \/ \E r \in Slots : UpdateWrite(r)
    \/ \E r \in Slots : UpdateRefetch(r)
    \/ \E r \in Slots, rows \in ListBatches : ImportProducts(r, rows)
    \/ \E r \in Slots : ImportRow(r)
    \/ \E r \in Slots : ImportFindByName(r)
    \/ \E r \in Slots : ImportCreate(r)
    \/ \E r \in Slots : ImportCreated(r)
    \/ \E r \in Slots, q \in SearchQueries : NoListing /\ GetProducts(r, q)
    \/ \E r \in Slots : ListFindAll(r)
    \/ \E r \in Slots : ListCount(r)
    \/ \E r \in Slots, id \in Ids : GetProductHistory(r, id)
    \/ \E r \in Slots : HistoryFindById(r)
    \/ \E r \in Slots : HistoryFindLogs(r)
    \/ \E r \in Slots : ExportProducts(r)
    \/ \E r \in Slots : ExportFindAll(r)
    \/ \E r \in Slots : Respond(r)

SpecLogs == Init /\ [][NextLogs]_vars

\* C19: every step of every operation keeps each existing log row, with the
\* same productId, oldStock, newStock, changedBy and timestamp.
C19_LogsAppendOnly ==
    [][\A l \in DOMAIN logs :
          \E m \in DOMAIN logs' :
              /\ logs'[m].id = logs[l].id
              /\ logs'[m].productId = logs[l].productId
              /\ logs'[m].oldStock = logs[l].oldStock
              /\ logs'[m].newStock = logs[l].newStock
              /\ logs'[m].changedBy = logs[l].changedBy
              /\ logs'[m].timestamp = logs[l].timestamp]_vars

\* a second log row has been written after the first
C19_Witness == Len(logs) = 2 /\ logs[1].call # logs[2].call

\* C20: in every reachable state the productId of every log row is the id
\* of a stored product.
C20_LogsBelongToStoredProducts ==
    \A l \in DOMAIN logs : \E p \in DOMAIN products : products[p].id = logs[l].productId

\* log rows of two different products, both stored
C20_Witness ==
    /\ \E l, m \in DOMAIN logs : logs[l].productId # logs[m].productId
    /\ \A l \in DOMAIN logs : Stored(logs[l].productId)

\* C21: the log row an updateProduct call writes has changedBy equal to the
\* actor passed to the call, or 'system' when the call passed none, and no
\* stored log row has an absent changedBy.
C21_ChangedByRecorded ==
    [][\A r \in Slots :
          (req[r].pc = "u_createLog" /\ req'[r].pc = "u_update")
          => /\ Len(logs') = Len(logs) + 1
             /\ logs'[Len(logs')].changedBy =
                   IF req[r].actor = UNDEF THEN <<"s", "y", "s", "t", "e", "m">> ELSE req[r].actor
             /\ \A l \in DOMAIN logs' : logs'[l].changedBy \notin {UNDEF, NULL}]_vars

\* a call without an actor has written its row as 'system'
C21_Witness ==
    \E r \in Slots :
        /\ IsUpdate(r) /\ req[r].actor = UNDEF
        /\ \E l \in LogsOf(r) : logs[l].changedBy = <<"s", "y", "s", "t", "e", "m">>

(***************************************************************************)
(* The HTTP boundary: login, and the global error handler that answers     *)
(* every failure a controller or middleware passes to next().  A failure   *)
(* is an AppError (isOperational, statusCode), a database driver error (no *)
(* statusCode) or the error express.json() raises for a malformed body     *)
(* (statusCode 400, not an AppError).                                      *)
(***************************************************************************)
ParseError == [type |-> "httperror", status |-> 400, fmt |-> "Unexpected token in JSON", arg |-> <<>>]

GenericMessage == <<"Something went very wrong! Please try again later.", <<>>>>

\* a handler that always sends the failure's own message
GlobalErrorHandlerLeaking(err) ==
    [status |-> IF err.status = 0 THEN 500 ELSE err.status, message |-> <<err.fmt, err.arg>>]

\* globalErrorHandler: err.statusCode || 500, then
\* `err.isOperational || err.statusCode < 500` decides between the failure's
\* own message and the generic one
GlobalErrorHandler(err) ==
    IF err.type = "error" \/ (IF err.status = 0 THEN 500 ELSE err.status) < 500
    THEN [status |-> IF err.status = 0 THEN 500 ELSE err.status, message |-> <<err.fmt, err.arg>>]
    ELSE [status |-> 500, message |-> GenericMessage]

IsFailure(res) == res.type \in {"error", "dberror", "httperror"}

\* catch (error) { next(error) }: the failed request is answered by the handler
HandleError(r) ==
    /\ req[r].pc = "done"
    /\ IsFailure(req[r].res)
    /\ req[r].meta = <<>>
    /\ req' = [req EXCEPT ![r].meta = GlobalErrorHandler(req[r].res)]
    /\ UNCHANGED <<products, logs, clock, calls>>

\* a request whose JSON body express.json() cannot parse never reaches a route
MalformedBody(r) ==
    /\ FreeSlot(r)
    /\ req' = [req EXCEPT ![r] = [Idle EXCEPT !.kind = "badbody", !.pc = "done", !.res = ParseError]]
    /\ UNCHANGED <<products, logs, clock, calls>>

\* `!username`
Falsy(v) == v = UNDEF \/ v = NULL \/ v = <<>>

\* a comparison that looks at the username only
CredentialsMatchUserOnly(username, password, adminUsername, adminPassword) ==
    username = adminUsername

\* username === ADMIN_USERNAME && password === ADMIN_PASSWORD
CredentialsMatch(username, password, adminUsername, adminPassword) ==
    username = adminUsername /\ password = adminPassword

Secret == <<"p", "w">>
Credentials == {UNDEF, <<>>, Admin, Secret}
\* process.env.ADMIN_USERNAME / ADMIN_PASSWORD, read when the module loads
AdminConfigs == {[username |-> Admin, password |-> Secret], [username |-> UNDEF, password |-> UNDEF]}

\* AuthController.login has no await: one step.  Logins touch no shared
\* state and so do not affect one another: one at a time.
Login(r, username, password, config) ==
    /\ FreeSlot(r)
    /\ \A s \in Slots : req[s].kind # "login"
    /\ req' = [req EXCEPT ![r] =
                 [Idle EXCEPT !.kind = "login", !.pc = "done",
                    !.query = [username |-> username, password |-> password, config |-> config],
                    !.res = IF Falsy(username) \/ Falsy(password)
                            THEN AppError("Please provide username and password!", <<>>, 400)
                            ELSE IF ~CredentialsMatch(username, password, config.username, config.password)
                            THEN AppError("Incorrect username or password", <<>>, 401)
                            ELSE OkRes,
                    !.meta = IF Falsy(username) \/ Falsy(password)
                                \/ ~CredentialsMatch(username, password, config.username, config.password)
                             THEN <<>>
                             ELSE [status |-> 200, token |-> "signToken(1)",
                                   user |-> [id |-> 1, username |-> config.username]]]]
    /\ UNCHANGED <<products, logs, clock, calls>>

HttpData == {Data(Rice, Kg, Num(2)), Data(RiceLower, Kg, NullV), Data(Rice, UNDEF, Num(1))}

NextHttp ==
    \/ \E r \in Slots, id \in Ids, data \in HttpData : UpdateProduct(r, id, data, Admin)
    \/ \E r \in Slots : UpdateFindById(r)
    \/ \E r \in Slots : UpdateFindByName(r)
    \/ \E r \in Slots : UpdateCreateLog(r)
    \/ \E r \in Slots : UpdateWrite(r)
    \/ \E r \in Slots : UpdateRefetch(r)
    \/ \E r \in Slots : MalformedBody(r)
    \/ \E r \in Slots, u \in Credentials, p \in Credentials, c \in AdminConfigs : Login(r, u, p, c)
    \/ \E r \in Slots : HandleError(r)
    \/ \E r \in Slots : Respond(r)

SpecHttp == Init /\ [][NextHttp]_vars

IsLogin(r) == req[r].kind = "login"
Handled(r) == req[r].pc = "done" /\ IsFailure(req[r].res) /\ req[r].meta # <<>>

C23_LoginAnswers ==
    \A r \in Slots :
        IsLogin(r)
        => LET u == req[r].query.username
               p == req[r].query.password
               c == req[r].query.config
               missing == u \in {UNDEF, NULL, <<>>} \/ p \in {UNDEF, NULL, <<>>}
               match == u = c.username /\ p = c.password
           IN  /\ missing
                  => /\ req[r].res = AppError("Please provide username and password!", <<>>, 400)
                     /\ req[r].meta # <<>> => req[r].meta.status = 400
               /\ (~missing /\ ~match)
                  => /\ req[r].res = AppError("Incorrect username or password", <<>>, 401)
                     /\ req[r].meta # <<>> => req[r].meta.status = 401
               /\ (~missing /\ match)
                  => /\ req[r].res = OkRes
                     /\ req[r].meta = [status |-> 200, token |-> "signToken(1)",
                                       user |-> [id |-> 1, username |-> u]]
               /\ (req[r].meta # <<>> /\ "token" \in DOMAIN req[r].meta) => (~missing /\ match)

\* a login with the configured credentials holds a token
C23_Witness ==
    \E r \in Slots :
        /\ IsLogin(r) /\ req[r].res = OkRes
        /\ req[r].query.username = Admin /\ req[r].query.password = Secret
        /\ req[r].meta.token = "signToken(1)"

\* C24: an updateProduct whose data fails validation ends at once with the
\* validation error (400), having read and written nothing, whatever the id
\* and the name; one whose data is valid goes on to look the product up, and
\* when the id has no product it ends with 'Product not found.' (404),
\* whoever owns the name.
C24_CheckOrder ==
    [][\A r \in Slots :
          /\ (req[r].pc = "idle" /\ req'[r].kind = "update")
             => /\ products' = products /\ logs' = logs
                /\ IF AbsentFields(req'[r].data) # {} \/ BadStock(req'[r].data)
                   THEN /\ req'[r].pc = "done"
                        /\ req'[r].res.type = "error" /\ req'[r].res.status = 400
                        /\ req'[r].res.fmt \in {"Product field '%s' is required.",
                                                "Stock must be a non-negative number."}
                        /\ req'[r].existing = NoRow
                   ELSE req'[r].pc = "u_findById"
          /\ (req[r].pc = "u_findById" /\ req'[r] # req[r] /\ ~Stored(req[r].id))
             => /\ req'[r].pc = "done" /\ req'[r].res = NotFoundError
                /\ products' = products /\ logs' = logs]_vars

\* invalid data for an id without a product and a name another product owns
C24_Witness ==
    \E r \in Slots :
        /\ IsUpdate(r) /\ req[r].pc = "done"
        /\ AbsentFields(req[r].data) # {}
        /\ ~Stored(req[r].id)
        /\ OtherOwners(r) # {}
        /\ req[r].res.status = 400

(***************************************************************************)
(* Updates of products that carry an image, while the clock advances.      *)
(***************************************************************************)
Url == <<"a", ".", "p", "n", "g">>
UrlB == <<"b", ".", "p", "n", "g">>

ImageStores == {<<NewRow(1, [RowRice EXCEPT !.image = Url], 0), NewRow(2, RowOil, 0)>>}

ImageData == {Data(Rice, Kg, Num(2)),
              [Data(RiceLower, Food, Num(1)) EXCEPT !.image = UrlB],
              [Data(Oil, Kg, Num(3)) EXCEPT !.image = <<>>]}

InitImage ==
    /\ products \in ImageStores
    /\ logs = <<>>
    /\ clock = 0
    /\ req = [r \in Slots |-> Idle]
    /\ calls = 0

NextImage ==
    \/ Tick
    \/ \E r \in Slots, id \in Ids, data \in ImageData : UpdateProduct(r, id, data, Admin)
    \/ \E r \in Slots : UpdateFindById(r)
    \/ \E r \in Slots : UpdateFindByName(r)
    \/ \E r \in Slots : UpdateCreateLog(r)
    \/ \E r \in Slots : UpdateWrite(r)
    \/ \E r \in Slots : UpdateRefetch(r)
    \/ \E r \in Slots : Respond(r)

SpecImage == InitImage /\ [][NextImage]_vars

\* C25: the step of a successful updateProduct(id, data, actor) that writes
\* the product leaves product id with name, unit, category, brand, status
\* and stock equal to those of data, image equal to data.image or null when
\* data has none, id and createdAt as before, and every other product as
\* before; the record the call returns is the stored product id.
C25_UpdateOverwrites ==
    [][\A r \in Slots :
          /\ (req[r].pc = "u_update" /\ req'[r].pc = "u_refetch")
             => LET id == req[r].id
                    data == req[r].data
                IN  /\ DOMAIN products' = DOMAIN products
                    /\ products'[id].name = data.name /\ products'[id].unit = data.unit
                    /\ products'[id].category = data.category /\ products'[id].brand = data.brand
                    /\ products'[id].status = data.status /\ products'[id].stock = data.stock
                    /\ products'[id].image =
                          IF data.image \in {UNDEF, NULL, <<>>} THEN NULL ELSE data.image
                    /\ products'[id].id = products[id].id
                    /\ products'[id].createdAt = products[id].createdAt
                    /\ \A p \in DOMAIN products : p # id => products'[p] = products[p]
          /\ (req[r].pc = "u_refetch" /\ req'[r].pc = "done")
             => /\ req'[r].res = OkRes
                /\ req'[r].ret = products[req[r].id]
                /\ products' = products]_vars

\* Rice, stored with an image, updated one second later by data without one
C25_Witness ==
    \E r \in Slots :
        /\ IsUpdate(r) /\ Succeeded(r)
        /\ req[r].existing.image = Url /\ req[r].data.image = UNDEF
        /\ req[r].ret.image = NULL /\ req[r].ret.stock = Num(2)
        /\ req[r].ret.createdAt = 0 /\ req[r].ret.updatedAt = 1

\* C26: every step of an importProducts call keeps each stored product with
\* all its fields, writes no log row, and adds one product exactly in the
\* step that creates a row; when the call returns, its added count is the
\* number of products it created.
C26_ImportOnlyAdds ==
    [][\A r \in Slots :
          (IsImport(r) /\ Steps(r))
          => /\ \A p \in DOMAIN products : p \in DOMAIN products' /\ products'[p] = products[p]
             /\ logs' = logs
             /\ Len(products') = Len(products)
                   + (IF req[r].pc = "i_create" /\ req'[r].pc = "i_created" THEN 1 ELSE 0)
             /\ req'[r].pc = "done" => req'[r].added = Cardinality(req'[r].made)]_vars

\* an import that met a stored product's name and added another product
C26_Witness ==
    \E r \in Slots :
        /\ ImportDone(r)
        /\ req[r].duplicates # <<>> /\ req[r].added = 1
        /\ Len(products) = 2 /\ products[1].stock = Num(1)

(***************************************************************************)
(* Pages of one listing, fetched by two requests from a store that no      *)
(* request changes.                                                        *)
(***************************************************************************)
PageQueries ==
    {Query(page, limit, name, UNDEF, sort, UNDEF) :
        page \in {UndefV, Str(<<"1">>), Str(<<"2">>)},
        limit \in {Str(<<"1">>), Str(<<"2">>)},
        name \in {UNDEF, <<"i">>},
        sort \in {UNDEF, SortName}}

\* Rice and Oil imported within one second; the same after an update of Rice
\* one second later.
PageStores == {<<NewRow(1, RowRice, 0), NewRow(2, RowOil, 0)>>,
               <<UpdatedRow(NewRow(1, RowRice, 0), Data(Rice, Kg, Num(7))), NewRow(2, RowOil, 0)>>}

InitPages ==
    /\ clock = 1
    /\ products \in PageStores
    /\ logs = <<>>
    /\ req = [r \in Slots |-> Idle]
    /\ calls = 0

NextPages ==
    \/ \E r \in Slots, q \in PageQueries : GetProducts(r, q)
    \/ \E r \in Slots : ListFindAll(r)
    \/ \E r \in Slots : ListCount(r)
    \/ \E r \in Slots : ExportProducts(r)
    \/ \E r \in Slots : ExportFindAll(r)
    \/ \E r \in Slots : Respond(r)

SpecPages == InitPages /\ [][NextPages]_vars

IdsIn(list) == {list[i].id : i \in DOMAIN list}

LogsOfProduct(p) == {l \in DOMAIN logs : logs[l].productId = p}
NewestLog(p) == CHOOSE l \in LogsOfProduct(p) : \A m \in LogsOfProduct(p) : m <= l
UpdateInProgress == \E r \in Slots : IsUpdate(r) /\ req[r].pc # "done"

\* C28: whenever no updateProduct is in progress, the newStock of the most
\* recently created log of a product equals the product's stored stock.
C28_NewestLogIsStoredStock ==
    ~UpdateInProgress =>
        \A p \in DOMAIN products :
            LogsOfProduct(p) # {} => logs[NewestLog(p)].newStock = products[p].stock

\* the stock product p was created with, in the store the updates start from
CreatedStock(p) == (CHOOSE store \in ImageStores : TRUE)[p].stock
\* the log of product p created just before log l, 0 when l is its first
PreviousLog(p, l) ==
    IF \E m \in LogsOfProduct(p) : m < l
    THEN CHOOSE m \in LogsOfProduct(p) :
            m < l /\ \A k \in LogsOfProduct(p) : k < l => k <= m
    ELSE 0

\* C29: in creation order the logs of a product form a chain: the first has
\* oldStock equal to the stock the product was created with, each later one
\* has oldStock equal to the newStock of the one before it, and every log
\* has oldStock different from newStock.
C29_LogsFormAChain ==
    \A p \in DOMAIN products : \A l \in LogsOfProduct(p) :
        /\ logs[l].oldStock # logs[l].newStock
        /\ logs[l].oldStock = IF PreviousLog(p, l) = 0 THEN CreatedStock(p)
                              ELSE logs[PreviousLog(p, l)].newStock

(***************************************************************************)
(* Two imports racing for one name.                                        *)
(***************************************************************************)
MadeIds(r) == {m[2] : m \in req[r].made}
\* the valid rows of request r whose name equals `name` ignoring case
RowsNamed(r, name) ==
    {i \in DOMAIN req[r].rows :
        ValidateProductData(req[r].rows[i]) = NoRes /\ Fold(req[r].rows[i].name) = Fold(name)}
\* requests r and s are the only calls the server has had
OnlyCalls(r, s) == {req[r].call, req[s].call} = 1..calls
RacedNames(r, s) ==
    {req[r].rows[i].name : i \in {i \in DOMAIN req[r].rows :
        /\ RowsNamed(r, req[r].rows[i].name) # {}
        /\ RowsNamed(s, req[r].rows[i].name) # {}
        /\ Owners(req[r].rows[i].name) \subseteq MadeIds(r) \cup MadeIds(s)}}

\* C30: when two imports that each hold a valid row of one name no product
\* had before them have both returned, and nothing else has run, exactly one
\* product has that name, both returned statistics, each has added + skipped
\* equal to its number of rows, and their added counts sum to the number of
\* products the two created.
C30_RacingImportsCreateOne ==
    \A r, s \in Slots :
        (/\ r # s /\ ImportDone(r) /\ ImportDone(s) /\ OnlyCalls(r, s)
         /\ RacedNames(r, s) # {})
        => /\ \A name \in RacedNames(r, s) : Cardinality(Owners(name)) = 1
           /\ req[r].res = StatsRes /\ req[s].res = StatsRes
           /\ req[r].added + req[r].skipped = Len(req[r].rows)
           /\ req[s].added + req[s].skipped = Len(req[s].rows)
           /\ req[r].added + req[s].added = Cardinality(MadeIds(r) \cup MadeIds(s))

\* both imports found the name free; the store refused the later insert
C30_Witness ==
    \E r, s \in Slots :
        /\ r # s /\ ImportDone(r) /\ ImportDone(s) /\ OnlyCalls(r, s)
        /\ \E i \in req[r].rejected : \E m \in req[s].made :
              /\ Fold(req[s].rows[m[1]].name) = Fold(req[r].rows[i].name)
              /\ req[r].rows[i].name \in RacedNames(r, s)
====
